---- MODULE Spec2Model ----
(***************************************************************************)
(* Model of the gatekeeping core of fullstack-mcp:                         *)
(*   RateLimiter          src/src/services/RateLimiter.ts                  *)
(*   PolicyEngine         src/src/services/PolicyEngine.ts                 *)
(*   ExecutionController  src/unnamed/part_000 (lines 1-366)               *)
(*                                                                         *)
(* JavaScript strings are sequences of one-character strings, so that      *)
(* concatenation, startsWith, endsWith and includes are computed and not   *)
(* assumed.  Date.now() is the variable now (milliseconds).                *)
(*                                                                         *)
(* The specifications share the variables:                                 *)
(*   SpecRL  a RateLimiter called directly with a fixed limit and window   *)
(*   Spec    a PolicyEngine (policies + its RateLimiter)                   *)
(*   SpecEC  an ExecutionController with its private PolicyEngine          *)
(*   SpecTO  an ExecutionController with the clock, the subprocess and the *)
(*           timer of every execution (fair timers)                        *)
(*   SpecPM  matchesResourcePattern applied to every short pattern and     *)
(*           resource                                                      *)
(*   SpecPO  a PolicyEngine whose addPolicy and removePolicy calls are     *)
(*           logged                                                        *)
(*   SpecGL  the server: the global PolicyEngine of index.ts with the      *)
(*           rate-limit middleware and the PolicyController, in front of   *)
(*           the ExecutionController                                       *)
(*   SpecRS  a RateLimiter with all of its operations: isAllowed,          *)
(*           getRateLimitStatus, reset and cleanup                         *)
(***************************************************************************)
EXTENDS Integers, Sequences, FiniteSets, TLC

VARIABLES
  now,            \* Date.now()
  requestCounts,  \* RateLimiter.requestCounts : key -> [count, resetTime]
  policies,       \* PolicyEngine.policies, a Map: sequence in insertion order
  cfg,            \* SpecRL: the limit and windowMs every isAllowed call passes
  calls,          \* SpecRL: log of the isAllowed calls made, oldest first
  last,           \* the last operation: its arguments, result and pre-state
  executions,     \* ExecutionController.executions : executionId -> record
  inflight,       \* ExecutionController: per execution id, the number of started
                  \* subprocesses whose runCommand call still awaits Promise.race
  races,          \* SpecTO: the Promise.race of every accepted runCommand, oldest
                  \* first: its subprocess promise, its timer and what the await got
  globalEngine    \* the PolicyEngine exported by index.ts: [policies, requestCounts]

vars ==
  <<now, requestCounts, policies, cfg, calls, last, executions, inflight, races,
    globalEngine>>

(***************************************************************************)
(* Bounds of the model                                                     *)
(***************************************************************************)
\* SpecRL: the clock advances 1 ms at a time up to MaxNow
MaxNow == 4
\* SpecRL: number of isAllowed calls logged
MaxCalls == 5
\* SpecRL: limits passed to isAllowed are 0..MaxLimit
MaxLimit == 2
\* Spec, SpecEC: number of whole default windows the clock may jump
MaxJumps == 1
\* SpecEC: runCommand calls awaiting their subprocess at once
MaxInFlight == 2
\* SpecPM: length of the patterns and resources tried
MaxLen == 3
\* SpecTO: runCommand calls accepted in one behaviour
MaxRaces == 1
\* SpecTO: the clock advances 1 ms at a time up to MaxClock, beyond it only to
\* the next timer
MaxClock == 2
\* SpecGL: requests made to the /policy routes
MaxPolicyRequests == 1
\* SpecPO: addPolicy and removePolicy calls made
MaxOps == 4

(***************************************************************************)
(* Program constants                                                       *)
(***************************************************************************)
defaultLimit == 100
defaultWindow == 60000
\* options.timeout || 30000
defaultTimeout == 30000

(***************************************************************************)
(* Strings                                                                 *)
(***************************************************************************)
\* String.prototype.startsWith
startsWith(s, p) == Len(p) <= Len(s) /\ SubSeq(s, 1, Len(p)) = p

\* String.prototype.endsWith
endsWith(s, p) == Len(p) <= Len(s) /\ SubSeq(s, Len(s) - Len(p) + 1, Len(s)) = p

\* String.prototype.includes
includes(s, p) == \E i \in 1..(Len(s) - Len(p) + 1) : SubSeq(s, i, i + Len(p) - 1) = p

\* s < t for JavaScript strings (code-unit order); CharCode orders the alphabet
CharCode(c) ==
  CASE c = "*" -> 42 [] c = "/" -> 47 [] c = "1" -> 49 [] c = "2" -> 50
    [] c = ":" -> 58 [] c = ";" -> 59 [] c = "a" -> 97 [] c = "b" -> 98
    [] c = "l" -> 108 [] c = "s" -> 115 [] OTHER -> 0

RECURSIVE strLess(_, _)
strLess(s, t) ==
  IF t = <<>> THEN FALSE
  ELSE IF s = <<>> THEN TRUE
  ELSE IF CharCode(Head(s)) # CharCode(Head(t)) THEN CharCode(Head(s)) < CharCode(Head(t))
  ELSE strLess(Tail(s), Tail(t))

\* Map.prototype.set on a map kept as a function
MapSet(m, k, v) == [x \in (DOMAIN m) \cup {k} |-> IF x = k THEN v ELSE m[x]]

\* Map.prototype.delete
MapDelete(m, k) == [x \in (DOMAIN m) \ {k} |-> m[x]]

EmptyMap == [x \in {} |-> 0]

(***************************************************************************)
(* RateLimiter                                                             *)
(***************************************************************************)
\* `${context.sessionId}:${context.ipAddress}`
Key(ctx) == ctx.sessionId \o <<":">> \o ctx.ipAddress

\* isAllowed with the limit test off by one (count > limit)
isAllowed_offByOne(rc, ctx, t, limit, windowMs) ==
  IF Key(ctx) \notin DOMAIN rc \/ t >= rc[Key(ctx)].resetTime
  THEN [allowed |-> TRUE,
        counts  |-> MapSet(rc, Key(ctx), [count |-> 1, resetTime |-> t + windowMs])]
  ELSE IF rc[Key(ctx)].count > limit
  THEN [allowed |-> FALSE, counts |-> rc]
  ELSE [allowed |-> TRUE,
        counts  |-> MapSet(rc, Key(ctx), [count |-> rc[Key(ctx)].count + 1,
                                          resetTime |-> rc[Key(ctx)].resetTime])]

\* isAllowed with the window still live at resetTime (now > resetTime)
isAllowed_strictExpiry(rc, ctx, t, limit, windowMs) ==
  IF Key(ctx) \notin DOMAIN rc \/ t > rc[Key(ctx)].resetTime
  THEN [allowed |-> TRUE,
        counts  |-> MapSet(rc, Key(ctx), [count |-> 1, resetTime |-> t + windowMs])]
  ELSE IF rc[Key(ctx)].count >= limit
  THEN [allowed |-> FALSE, counts |-> rc]
  ELSE [allowed |-> TRUE,
        counts  |-> MapSet(rc, Key(ctx), [count |-> rc[Key(ctx)].count + 1,
                                          resetTime |-> rc[Key(ctx)].resetTime])]

\* isAllowed counting the denied request too
isAllowed_countsDenied(rc, ctx, t, limit, windowMs) ==
  IF Key(ctx) \notin DOMAIN rc \/ t >= rc[Key(ctx)].resetTime
  THEN [allowed |-> TRUE,
        counts  |-> MapSet(rc, Key(ctx), [count |-> 1, resetTime |-> t + windowMs])]
  ELSE [allowed |-> rc[Key(ctx)].count < limit,
        counts  |-> MapSet(rc, Key(ctx), [count |-> rc[Key(ctx)].count + 1,
                                          resetTime |-> rc[Key(ctx)].resetTime])]

\* isAllowed sliding the window: every allowed request moves resetTime
isAllowed_slidingReset(rc, ctx, t, limit, windowMs) ==
  IF Key(ctx) \notin DOMAIN rc \/ t >= rc[Key(ctx)].resetTime
  THEN [allowed |-> TRUE,
        counts  |-> MapSet(rc, Key(ctx), [count |-> 1, resetTime |-> t + windowMs])]
  ELSE IF rc[Key(ctx)].count >= limit
  THEN [allowed |-> FALSE, counts |-> rc]
  ELSE [allowed |-> TRUE,
        counts  |-> MapSet(rc, Key(ctx), [count |-> 1, resetTime |-> t + windowMs])]

\* isAllowed adding two to the count of a live record
isAllowed_countsTwice(rc, ctx, t, limit, windowMs) ==
  IF Key(ctx) \notin DOMAIN rc \/ t >= rc[Key(ctx)].resetTime
  THEN [allowed |-> TRUE,
        counts  |-> MapSet(rc, Key(ctx), [count |-> 1, resetTime |-> t + windowMs])]
  ELSE IF rc[Key(ctx)].count >= limit
  THEN [allowed |-> FALSE, counts |-> rc]
  ELSE [allowed |-> TRUE,
        counts  |-> MapSet(rc, Key(ctx), [count |-> rc[Key(ctx)].count + 2,
                                          resetTime |-> rc[Key(ctx)].resetTime])]

\* RateLimiter.isAllowed at time t: the value returned and the map afterwards
isAllowed(rc, ctx, t, limit, windowMs) ==
  LET key == Key(ctx) IN
  IF key \notin DOMAIN rc \/ t >= rc[key].resetTime
  THEN [allowed |-> TRUE,
        counts  |-> MapSet(rc, key, [count |-> 1, resetTime |-> t + windowMs])]
  ELSE IF rc[key].count >= limit
  THEN [allowed |-> FALSE, counts |-> rc]
  ELSE [allowed |-> TRUE,
        counts  |-> MapSet(rc, key, [count |-> rc[key].count + 1,
                                     resetTime |-> rc[key].resetTime])]

\* RateLimiter.getRateLimitStatus at time t: the object returned
getRateLimitStatus(rc, ctx, t) ==
  LET key == Key(ctx) IN
  IF key \notin DOMAIN rc \/ t >= rc[key].resetTime
  THEN [remaining |-> defaultLimit, resetTime |-> t + defaultWindow,
        limit |-> defaultLimit]
  ELSE [remaining |-> defaultLimit - rc[key].count, resetTime |-> rc[key].resetTime,
        limit |-> defaultLimit]

\* RateLimiter.reset: the map afterwards
reset(rc, ctx) == MapDelete(rc, Key(ctx))

\* cleanup removing a record one millisecond before its window ends
cleanup_removesLive(rc, t) ==
  [key \in {k \in DOMAIN rc : ~(t + 1 >= rc[k].resetTime)} |-> rc[key]]

\* RateLimiter.cleanup at time t: the map afterwards
cleanup(rc, t) ==
  [key \in {k \in DOMAIN rc : ~(t >= rc[k].resetTime)} |-> rc[key]]

(***************************************************************************)
(* PolicyEngine                                                            *)
(*   policy    [id, rules]            rules: sequence of rule              *)
(*   rule      [id, type, action, resource, conditions]                    *)
(*             conditions: sequence of condition, <<>> when absent         *)
(*   condition [type, operator, value]                                     *)
(*   context   [sessionId, ipAddress, resource, action]                    *)
(***************************************************************************)
\* matchesResourcePattern treating the first "*" of a pattern as the wildcard,
\* wherever it stands
matchesResourcePattern_firstStar(pattern, resource) ==
  IF pattern = <<"*">> THEN TRUE
  ELSE IF pattern = resource THEN TRUE
  ELSE IF includes(pattern, <<"*">>)
  THEN startsWith(resource,
         SubSeq(pattern, 1, (CHOOSE i \in 1..Len(pattern) :
                               pattern[i] = "*" /\ \A j \in 1..(i - 1) : pattern[j] # "*") - 1))
  ELSE FALSE

\* PolicyEngine.matchesResourcePattern
matchesResourcePattern(pattern, resource) ==
  IF pattern = <<"*">> THEN TRUE
  ELSE IF pattern = resource THEN TRUE
  ELSE IF endsWith(pattern, <<"*">>)
  THEN startsWith(resource, SubSeq(pattern, 1, Len(pattern) - 1))
  ELSE FALSE

\* PolicyEngine.evaluateStringCondition
evaluateStringCondition(condition, value) ==
  CASE condition.operator = "equals"      -> value = condition.value
    [] condition.operator = "notEquals"   -> value # condition.value
    [] condition.operator = "contains"    -> includes(value, condition.value)
    [] condition.operator = "startsWith"  -> startsWith(value, condition.value)
    [] condition.operator = "endsWith"    -> endsWith(value, condition.value)
    [] condition.operator = "greaterThan" -> strLess(condition.value, value)
    [] condition.operator = "lessThan"    -> strLess(value, condition.value)
    [] OTHER -> FALSE

\* PolicyEngine.evaluateCondition
evaluateCondition(condition, ctx) ==
  CASE condition.type = "ipAddress" -> evaluateStringCondition(condition, ctx.ipAddress)
    [] condition.type = "sessionId" -> evaluateStringCondition(condition, ctx.sessionId)
    [] condition.type = "timeRange" -> TRUE
    [] condition.type = "rateLimit" -> TRUE
    [] OTHER -> FALSE

\* evaluateRule without the test that keeps rateLimit rules to rateLimit
\* contexts
evaluateRule_noRateLimitTest(rule, ctx) ==
  IF rule.type = "fileAccess" /\ ctx.action # "fileAccess" THEN FALSE
  ELSE IF rule.type = "commandExecution" /\ ctx.action # "commandExecution" THEN FALSE
  ELSE IF rule.type = "networkAccess" /\ ctx.action # "networkAccess" THEN FALSE
  ELSE IF ~matchesResourcePattern(rule.resource, ctx.resource) THEN FALSE
  ELSE \A i \in 1..Len(rule.conditions) : evaluateCondition(rule.conditions[i], ctx)

\* PolicyEngine.evaluateRule
evaluateRule(rule, ctx) ==
  IF rule.type = "fileAccess" /\ ctx.action # "fileAccess" THEN FALSE
  ELSE IF rule.type = "commandExecution" /\ ctx.action # "commandExecution" THEN FALSE
  ELSE IF rule.type = "networkAccess" /\ ctx.action # "networkAccess" THEN FALSE
  ELSE IF rule.type = "rateLimit" /\ ctx.action # "rateLimit" THEN FALSE
  ELSE IF ~matchesResourcePattern(rule.resource, ctx.resource) THEN FALSE
  ELSE \A i \in 1..Len(rule.conditions) : evaluateCondition(rule.conditions[i], ctx)

\* for (policy of this.policies.values()) for (rule of policy.rules): the rules
\* in the order the two nested loops visit them
RECURSIVE policyRules(_)
policyRules(pols) ==
  IF pols = <<>> THEN <<>> ELSE Head(pols).rules \o policyRules(Tail(pols))

\* Array.prototype.find over a rule's conditions: index of the first rateLimit
\* condition with the operator, 0 when there is none
RECURSIVE findCondition(_, _, _)
findCondition(conds, operator, i) ==
  IF i > Len(conds) THEN 0
  ELSE IF conds[i].type = "rateLimit" /\ conds[i].operator = operator THEN i
  ELSE findCondition(conds, operator, i + 1)

\* (find(...)?.value as number) || dflt : undefined and 0 are falsy
valueOr(conds, operator, dflt) ==
  LET i == findCondition(conds, operator, 1) IN
  IF i = 0 THEN dflt
  ELSE IF conds[i].value = 0 THEN dflt
  ELSE conds[i].value

\* isRateLimited's loop: index of the first rule with type rateLimit that
\* evaluateRule accepts, 0 when there is none
RECURSIVE findRateLimitRule(_, _, _)
findRateLimitRule(rules, ctx, i) ==
  IF i > Len(rules) THEN 0
  ELSE IF rules[i].type = "rateLimit" /\ evaluateRule(rules[i], ctx) THEN i
  ELSE findRateLimitRule(rules, ctx, i + 1)

\* isRateLimited, lines 73-74 and 82: the limit and window passed to isAllowed
\* when rule i is the rate-limit rule found (i = 0: none, the defaults apply)
rateLimitParameters(rules, i) ==
  IF i = 0 THEN [limit |-> defaultLimit, windowMs |-> defaultWindow]
  ELSE [limit    |-> valueOr(rules[i].conditions, "limit", 100),
        windowMs |-> valueOr(rules[i].conditions, "window", 60000)]

\* what the gate did: isAllowed's answer r and the parameters it was given
gateOutcome(r, params) ==
  [allowed |-> r.allowed, counts |-> r.counts,
   limit |-> params.limit, windowMs |-> params.windowMs]

\* this.rateLimiter.isAllowed(context, limit, windowMs)
rateLimitedWith(rc, ctx, t, params) ==
  gateOutcome(isAllowed(rc, ctx, t, params.limit, params.windowMs), params)

\* PolicyEngine.isRateLimited: the parameters it passes and what isAllowed returns
isRateLimited(pols, rc, ctx, t) ==
  rateLimitedWith(rc, ctx, t,
    rateLimitParameters(policyRules(pols), findRateLimitRule(policyRules(pols), ctx, 1)))

\* the policy loop returning the last rule that matches instead of the first
findRule_lastMatch(rules, ctx, i) ==
  IF \E j \in i..Len(rules) : evaluateRule(rules[j], ctx)
  THEN CHOOSE j \in i..Len(rules) :
         /\ evaluateRule(rules[j], ctx)
         /\ \A k \in i..Len(rules) : evaluateRule(rules[k], ctx) => k <= j
  ELSE 0

\* isActionAllowed's loop: index of the first rule evaluateRule accepts, 0 when
\* there is none
RECURSIVE findRule(_, _, _)
findRule(rules, ctx, i) ==
  IF i > Len(rules) THEN 0
  ELSE IF evaluateRule(rules[i], ctx) THEN i
  ELSE findRule(rules, ctx, i + 1)

\* isActionAllowed evaluating the rules although the gate denied
decide_noShortCircuit(gate, size, rules, i) ==
  [result    |-> IF size = 0 THEN TRUE
                 ELSE IF i # 0 THEN rules[i].action = "allow"
                 ELSE FALSE,
   counts    |-> gate.counts,
   gate      |-> gate,
   evaluated |-> IF size = 0 THEN 0 ELSE IF i # 0 THEN i ELSE Len(rules)]

\* isActionAllowed denying when no policy is registered
decide_emptyDenies(gate, size, rules, i) ==
  [result    |-> IF ~gate.allowed THEN FALSE
                 ELSE IF i # 0 THEN rules[i].action = "allow"
                 ELSE FALSE,
   counts    |-> gate.counts,
   gate      |-> gate,
   evaluated |-> IF ~gate.allowed \/ size = 0 THEN 0
                 ELSE IF i # 0 THEN i
                 ELSE Len(rules)]

\* isActionAllowed allowing when no rule matches
decide_defaultAllow(gate, size, rules, i) ==
  [result    |-> IF ~gate.allowed THEN FALSE
                 ELSE IF size = 0 THEN TRUE
                 ELSE IF i # 0 THEN rules[i].action = "allow"
                 ELSE TRUE,
   counts    |-> gate.counts,
   gate      |-> gate,
   evaluated |-> IF ~gate.allowed \/ size = 0 THEN 0
                 ELSE IF i # 0 THEN i
                 ELSE Len(rules)]

\* isActionAllowed, lines 40-59, given the gate's outcome, the number of
\* policies, the rules in loop order and the index i of the first rule that
\* matches (0: none): the value returned, the limiter's map afterwards, what
\* the gate did, and how many rules the policy loop evaluated
decide(gate, size, rules, i) ==
  [result    |-> IF ~gate.allowed THEN FALSE
                 ELSE IF size = 0 THEN TRUE
                 ELSE IF i # 0 THEN rules[i].action = "allow"
                 ELSE FALSE,
   counts    |-> gate.counts,
   gate      |-> gate,
   evaluated |-> IF ~gate.allowed \/ size = 0 THEN 0
                 ELSE IF i # 0 THEN i
                 ELSE Len(rules)]

\* isActionAllowed giving the unit of budget back when the policies deny
isActionAllowed_refundsDenied(pols, rc, ctx, t) ==
  IF decide(isRateLimited(pols, rc, ctx, t), Len(pols), policyRules(pols),
            findRule(policyRules(pols), ctx, 1)).result
  THEN decide(isRateLimited(pols, rc, ctx, t), Len(pols), policyRules(pols),
              findRule(policyRules(pols), ctx, 1))
  ELSE [decide(isRateLimited(pols, rc, ctx, t), Len(pols), policyRules(pols),
               findRule(policyRules(pols), ctx, 1)) EXCEPT !.counts = rc]

\* PolicyEngine.isActionAllowed
isActionAllowed(pols, rc, ctx, t) ==
  decide(isRateLimited(pols, rc, ctx, t), Len(pols), policyRules(pols),
         findRule(policyRules(pols), ctx, 1))

\* position of the policy with this id in the Map's iteration order, 0 if absent
RECURSIVE policyIndex(_, _, _)
policyIndex(pols, id, i) ==
  IF i > Len(pols) THEN 0
  ELSE IF pols[i].id = id THEN i
  ELSE policyIndex(pols, id, i + 1)

\* addPolicy moving a policy that is set again to the end of the order
addPolicy_movesToEnd(pols, policy) ==
  Append(SelectSeq(pols, LAMBDA p : p.id # policy.id), policy)

\* PolicyEngine.addPolicy: Map.set keeps the position of a key already present
addPolicy(pols, policy) ==
  LET i == policyIndex(pols, policy.id, 1) IN
  IF i = 0 THEN Append(pols, policy) ELSE [pols EXCEPT ![i] = policy]

\* PolicyEngine.removePolicy
removePolicy(pols, id) == SelectSeq(pols, LAMBDA p : p.id # id)

\* PolicyEngine.createDefaultPolicy
createDefaultPolicy ==
  [id |-> "default-policy",
   rules |-> <<
     [id |-> "allow-all-file-access", type |-> "fileAccess", action |-> "allow",
      resource |-> <<"*">>, conditions |-> <<>>],
     [id |-> "allow-all-command-execution", type |-> "commandExecution",
      action |-> "allow", resource |-> <<"*">>, conditions |-> <<>>],
     [id |-> "default-rate-limit", type |-> "rateLimit", action |-> "allow",
      resource |-> <<"*">>,
      conditions |-> << [type |-> "rateLimit", operator |-> "limit", value |-> 100],
                        [type |-> "rateLimit", operator |-> "window", value |-> 60000] >>] >>]

\* new PolicyEngine(): no policy, and a RateLimiter of its own without records
newPolicyEngine == [policies |-> <<>>, requestCounts |-> EmptyMap]

\* new PolicyEngine() followed by addPolicy(PolicyEngine.createDefaultPolicy())
defaultEngine ==
  [policies |-> addPolicy(<<>>, createDefaultPolicy), requestCounts |-> EmptyMap]

(***************************************************************************)
(* Inputs                                                                  *)
(***************************************************************************)
\* ids generateExecutionId may return (Date.now and Math.random decide)
ExecutionIds == {<<"e", "1">>, <<"e", "2">>}

NoneInFlight == [id \in ExecutionIds |-> 0]

RECURSIVE SumOver(_, _)
SumOver(f, S) ==
  IF S = {} THEN 0
  ELSE LET x == CHOOSE y \in S : TRUE IN f[x] + SumOver(f, S \ {x})

\* the number of runCommand calls awaiting their race
InFlightCount(f) == SumOver(f, DOMAIN f)

NoContext == [sessionId |-> <<>>, ipAddress |-> <<>>, resource |-> <<>>, action |-> ""]

\* the body of a response that carries no ExecutionResult
NoRecord == [executionId |-> <<>>, exitCode |-> 0, error |-> ""]

\* what `last` holds when no operation has been made
NoLast ==
  [op |-> "none", ctx |-> NoContext, at |-> 0, result |-> FALSE,
   before |-> EmptyMap, rateAllowed |-> FALSE, limit |-> 0, windowMs |-> 0,
   evaluated |-> 0, status |-> 0, error |-> "", command |-> <<>>, args |-> <<>>,
   executionId |-> <<>>, executionsBefore |-> EmptyMap, inflightBefore |-> NoneInFlight,
   outcome |-> "", body |-> NoRecord, race |-> 0,
   pattern |-> <<>>, remaining |-> 0, resetTime |-> 0]

\* SpecRL: two identities, hence two keys
ContextsRL ==
  { [sessionId |-> s, ipAddress |-> <<"1">>, resource |-> <<"l", "s">>,
     action |-> "commandExecution"] : s \in {<<"a">>, <<"b">>} }

\* SpecRL: windowMs values passed to isAllowed
WindowsRL == {0, 2}

InitCommon ==
  /\ now = 0
  /\ requestCounts = EmptyMap
  /\ policies = <<>>
  /\ cfg = [limit |-> defaultLimit, windowMs |-> defaultWindow]
  /\ calls = <<>>
  /\ last = NoLast
  /\ executions = EmptyMap
  /\ inflight = NoneInFlight
  /\ races = <<>>
  /\ globalEngine = newPolicyEngine

(***************************************************************************)
(* SpecRL: a RateLimiter whose isAllowed is always called with the limit   *)
(* and window fixed at the start                                           *)
(***************************************************************************)
InitRL ==
  /\ now = 0
  /\ requestCounts = EmptyMap
  /\ policies = <<>>
  /\ cfg \in [limit : 0..MaxLimit, windowMs : WindowsRL]
  /\ calls = <<>>
  /\ last = NoLast
  /\ executions = EmptyMap
  /\ inflight = NoneInFlight
  /\ races = <<>>
  /\ globalEngine = newPolicyEngine

\* rateLimiter.isAllowed(ctx, cfg.limit, cfg.windowMs)
IsAllowedCall(ctx) ==
  /\ Len(calls) < MaxCalls
  /\ \E r \in {isAllowed(requestCounts, ctx, now, cfg.limit, cfg.windowMs)} :
     /\ requestCounts' = r.counts
     /\ calls' = Append(calls, [key |-> Key(ctx), at |-> now, allowed |-> r.allowed])
     /\ last' = [NoLast EXCEPT !.op = "isAllowed", !.ctx = ctx, !.at = now,
                               !.result = r.allowed, !.before = requestCounts,
                               !.limit = cfg.limit, !.windowMs = cfg.windowMs]
  /\ UNCHANGED <<now, policies, cfg, executions, inflight, races, globalEngine>>

\* one millisecond passes
Tick ==
  /\ now < MaxNow
  /\ now' = now + 1
  /\ UNCHANGED <<requestCounts, policies, cfg, calls, last, executions,
                 inflight, races, globalEngine>>

NextRL ==
  \/ \E ctx \in ContextsRL : IsAllowedCall(ctx)
  \/ Tick

SpecRL == InitRL /\ [][NextRL]_vars

\* the logged calls for a key, as indices of the log
CallsOf(key) == {i \in 1..Len(calls) : calls[i].key = key}

\* the number of logged calls for the key made at a time in lo..hi that returned true
AllowedIn(key, lo, hi) ==
  Cardinality({i \in CallsOf(key) : calls[i].allowed /\ lo <= calls[i].at /\ calls[i].at <= hi})

\* the time of the first logged call for a key (the call that finds no record)
FirstAt(key) == calls[CHOOSE i \in CallsOf(key) : \A j \in CallsOf(key) : i <= j].at

\* the logged calls for a key made before the resetTime of its first record
FirstWindow(key) == {i \in CallsOf(key) : calls[i].at < FirstAt(key) + cfg.windowMs}

\* the position of call i among the calls for its key
Rank(key, i) == Cardinality({j \in CallsOf(key) : j <= i})

KeysRL == {Key(c) : c \in ContextsRL}

\* C5 as stated: starting from no record, the k-th call before the first
\* record's resetTime returns true exactly when k <= N, for every limit N
C5_Original ==
  \A key \in KeysRL : \A i \in FirstWindow(key) :
    calls[i].allowed = (Rank(key, i) <= cfg.limit)

\* C5 (amended): for every limit N >= 1, starting from no record for a key,
\* exactly the first N calls made before the record's resetTime return true
\* and every further call before resetTime returns false
C5_FirstNAllowed ==
  cfg.limit >= 1 => C5_Original

C5_Witness ==
  /\ cfg.limit >= 1
  /\ \E key \in KeysRL : \E i \in FirstWindow(key) :
       /\ Rank(key, i) = cfg.limit + 1
       /\ ~calls[i].allowed
       /\ \A j \in FirstWindow(key) : j < i => calls[j].allowed

\* C6: the first isAllowed call made at now >= record.resetTime is allowed and
\* replaces the record by count = 1, resetTime = now + windowMs, whatever the
\* previous count was
C6_ExpiredWindowRestarts ==
  (/\ last.op = "isAllowed"
   /\ Key(last.ctx) \in DOMAIN last.before
   /\ last.at >= last.before[Key(last.ctx)].resetTime)
  => /\ last.result = TRUE
     /\ requestCounts[Key(last.ctx)] = [count |-> 1, resetTime |-> last.at + last.windowMs]

C6_Witness ==
  /\ last.op = "isAllowed"
  /\ Key(last.ctx) \in DOMAIN last.before
  /\ last.at >= last.before[Key(last.ctx)].resetTime
  /\ last.limit >= 1
  /\ last.windowMs >= 1
  /\ last.before[Key(last.ctx)].count >= last.limit
  /\ last.result = TRUE
  /\ requestCounts[Key(last.ctx)].count = 1

\* C7: an isAllowed call that returns false leaves the whole counter map
\* unchanged
C7_DenyLeavesMapUnchanged ==
  (last.op = "isAllowed" /\ last.result = FALSE) => requestCounts = last.before

C7_Witness ==
  /\ last.op = "isAllowed"
  /\ last.result = FALSE
  /\ Cardinality(DOMAIN requestCounts) = 2
  /\ requestCounts = last.before

\* C8 as stated: at most L allowed calls between a record's creation and its
\* resetTime, and at most 2*L in any interval of length W
C8_Original ==
  \A key \in KeysRL :
    /\ key \in DOMAIN requestCounts =>
         AllowedIn(key, requestCounts[key].resetTime - cfg.windowMs,
                   requestCounts[key].resetTime - 1) <= cfg.limit
    /\ \A t \in 0..MaxNow : AllowedIn(key, t, t + cfg.windowMs) <= 2 * cfg.limit

\* C8 (amended): with a constant limit L >= 1 and window W >= 1 for a key, at
\* most L isAllowed calls return true between a record's creation and its
\* resetTime, and at most 2*L in any time interval of length W
C8_BurstBound ==
  (cfg.limit >= 1 /\ cfg.windowMs >= 1) => C8_Original

C8_Witness ==
  /\ cfg.limit >= 1
  /\ cfg.windowMs >= 1
  /\ \E key \in KeysRL : \E t \in 0..MaxNow :
       /\ AllowedIn(key, t, t + cfg.windowMs) = 2 * cfg.limit
       /\ \E i \in CallsOf(key) : calls[i].at <= t + cfg.windowMs /\ ~calls[i].allowed

(***************************************************************************)
(* Spec: a PolicyEngine, empty after construction, on which policies are   *)
(* added and removed and isActionAllowed is called                         *)
(***************************************************************************)
\* contexts: one identity, two resources, two actions
Contexts ==
  { [sessionId |-> <<"s">>, ipAddress |-> <<"1">>, resource |-> r, action |-> a] :
      r \in {<<"l", "s">>, <<"a">>}, a \in {"commandExecution", "rateLimit"} }

Rule(id, type, action, resource, conditions) ==
  [id |-> id, type |-> type, action |-> action, resource |-> resource,
   conditions |-> conditions]

\* the rule lists a policy may carry
RuleLists ==
  { <<>>,
    \* two rules on the same resource with different actions, a rate-limit
    \* rule whose limit is 0, and a rule whose type is none of the four
    << Rule("deny-ls", "commandExecution", "deny", <<"l", "s">>, <<>>),
       Rule("allow-all", "commandExecution", "allow", <<"*">>, <<>>),
       Rule("limit-0", "rateLimit", "allow", <<"a">>,
            << [type |-> "rateLimit", operator |-> "limit", value |-> 0] >>),
       Rule("typo-type", "command", "allow", <<"*">>, <<>>) >>,
    \* a rate-limit rule (1 request per 120000 ms), then a prefix pattern under
    \* conditions, the first of which fails
    << Rule("limit-1", "rateLimit", "allow", <<"*">>,
            << [type |-> "rateLimit", operator |-> "limit", value |-> 1],
               [type |-> "rateLimit", operator |-> "window", value |-> 120000] >>),
       Rule("allow-l-from-2", "commandExecution", "allow", <<"l", "*">>,
            << [type |-> "ipAddress", operator |-> "equals", value |-> <<"2">>] >>),
       Rule("allow-l-session-s", "commandExecution", "allow", <<"l", "*">>,
            << [type |-> "sessionId", operator |-> "startsWith", value |-> <<"s">>] >>) >> }

PolicyIds == {"p1", "p2"}

Init == InitCommon

\* policyEngine.addPolicy(policy)
AddPolicy(policy) ==
  /\ policies' = addPolicy(policies, policy)
  /\ last' = NoLast
  /\ UNCHANGED <<now, requestCounts, cfg, calls, executions, inflight, races,
                 globalEngine>>

\* policyEngine.removePolicy(id)
RemovePolicy(id) ==
  /\ policies' = removePolicy(policies, id)
  /\ last' = NoLast
  /\ UNCHANGED <<now, requestCounts, cfg, calls, executions, inflight, races,
                 globalEngine>>

\* policyEngine.isActionAllowed(ctx)
IsActionAllowedCall(ctx) ==
  /\ \E r \in {isActionAllowed(policies, requestCounts, ctx, now)} :
     /\ requestCounts' = r.counts
     /\ last' = [NoLast EXCEPT !.op = "isActionAllowed", !.ctx = ctx, !.at = now,
                               !.result = r.result, !.before = requestCounts,
                               !.rateAllowed = r.gate.allowed,
                               !.limit = r.gate.limit, !.windowMs = r.gate.windowMs,
                               !.evaluated = r.evaluated]
  /\ UNCHANGED <<now, policies, cfg, calls, executions, inflight, races, globalEngine>>

\* a whole default window passes
Jump ==
  /\ now < MaxJumps * defaultWindow
  /\ now' = now + defaultWindow
  /\ UNCHANGED <<requestCounts, policies, cfg, calls, last, executions,
                 inflight, races, globalEngine>>

Next ==
  \/ \E id \in PolicyIds : \E rules \in RuleLists : AddPolicy([id |-> id, rules |-> rules])
  \/ \E id \in PolicyIds : RemovePolicy(id)
  \/ \E ctx \in Contexts : IsActionAllowedCall(ctx)
  \/ Jump

Spec == Init /\ [][Next]_vars

\* the last call found its key over budget: a live record whose count has
\* reached the limit the gate passed
OverBudget ==
  /\ Key(last.ctx) \in DOMAIN last.before
  /\ last.at < last.before[Key(last.ctx)].resetTime
  /\ last.before[Key(last.ctx)].count >= last.limit

\* rule r of policy p matches the context of the last call
Matches(p, r) == evaluateRule(policies[p].rules[r], last.ctx)

RulePositions == {pr \in (1..Len(policies)) \X (1..4) : pr[2] <= Len(policies[pr[1]].rules)}

\* pr comes no later than qs in insertion order of policies, then declaration
\* order of rules
NoLater(pr, qs) == pr[1] < qs[1] \/ (pr[1] = qs[1] /\ pr[2] <= qs[2])

\* pr is the first rule, in that order, that matches the last call's context
IsFirstMatch(pr) ==
  /\ Matches(pr[1], pr[2])
  /\ \A qs \in RulePositions : Matches(qs[1], qs[2]) => NoLater(pr, qs)

\* C1: if the RateLimiter denies the context's key, isActionAllowed returns
\* false whatever the policies are, and no rule of the policy loop is evaluated
C1_RateLimitShortCircuits ==
  (last.op = "isActionAllowed" /\ OverBudget)
  => (last.result = FALSE /\ last.evaluated = 0)

\* the key is over budget while the first matching rule says allow
C1_Witness ==
  /\ last.op = "isActionAllowed"
  /\ OverBudget
  /\ \E pr \in RulePositions :
       IsFirstMatch(pr) /\ policies[pr[1]].rules[pr[2]].action = "allow"
  /\ last.result = FALSE

\* C2: within budget and with at least one policy, isActionAllowed returns
\* (action = allow) of the first matching rule, policies in insertion order
\* and rules in declaration order; later matching rules never change it
C2_FirstMatchWins ==
  (last.op = "isActionAllowed" /\ ~OverBudget /\ Len(policies) >= 1)
  => \A pr \in RulePositions :
       IsFirstMatch(pr) => last.result = (policies[pr[1]].rules[pr[2]].action = "allow")

\* a rule of a later policy matches too, with the other action
C2_Witness ==
  /\ last.op = "isActionAllowed"
  /\ ~OverBudget
  /\ \E pr \in RulePositions : \E qs \in RulePositions :
       /\ IsFirstMatch(pr)
       /\ qs[1] > pr[1]
       /\ Matches(qs[1], qs[2])
       /\ policies[qs[1]].rules[qs[2]].action # policies[pr[1]].rules[pr[2]].action
       /\ last.result = (policies[pr[1]].rules[pr[2]].action = "allow")

\* C3 as stated: with no policies, isActionAllowed returns true after any
\* sequence of earlier calls
C3_Original ==
  (last.op = "isActionAllowed" /\ Len(policies) = 0) => last.result = TRUE

\* C3 (amended): with no policies registered, isActionAllowed returns true for
\* any context whose key is within the default rate budget, and false once the
\* key is over budget
C3_BootstrapAllowWithinBudget ==
  (last.op = "isActionAllowed" /\ Len(policies) = 0)
  => /\ last.limit = defaultLimit
     /\ last.result = ~OverBudget

\* the 100th request of a window, with no policies: still allowed
C3_Witness ==
  /\ last.op = "isActionAllowed"
  /\ Len(policies) = 0
  /\ Key(last.ctx) \in DOMAIN last.before
  /\ last.at < last.before[Key(last.ctx)].resetTime
  /\ last.before[Key(last.ctx)].count = defaultLimit - 1
  /\ last.result = TRUE

Unknown == <<"u", "n", "k", "n", "o", "w", "n">>

\* isValidCommand's dangerousPatterns, in the order of the array; the backtick
\* character is written "backtick"
dangerousPatterns ==
  << <<";">>, <<"|", "|">>, <<"&", "&">>, <<"$">>, <<"backtick">>, <<">">>, <<"<">>,
     <<"(">>, <<"{">> >>

\* isValidCommand screening the command and not the arguments
isValidCommand_commandOnly(command, args) ==
  \A i \in 1..Len(dangerousPatterns) : ~includes(command, dangerousPatterns[i])

\* ExecutionController.isValidCommand.  The regular expressions are created by
\* each call and a successful test returns at once, so no lastIndex survives
\* from one test to the next: each test is a substring search.
isValidCommand(command, args) ==
  /\ \A i \in 1..Len(dangerousPatterns) : ~includes(command, dangerousPatterns[i])
  /\ \A a \in 1..Len(args) :
       \A i \in 1..Len(dangerousPatterns) : ~includes(args[a], dangerousPatterns[i])

\* the PolicyEvaluationContext the controller builds
contextOf(req, resource) ==
  [sessionId |-> IF req.session = <<>> THEN Unknown ELSE req.session,
   ipAddress |-> IF req.ip = <<>> THEN Unknown ELSE req.ip,
   resource  |-> resource,
   action    |-> "commandExecution"]

\* runCommand going on to the dispatch although the policy check failed
authorizeRun_ignoresDenial(r) ==
  [status |-> 0, error |-> "", counts |-> r.counts, start |-> TRUE]

\* runCommand, lines 60-66: the policy check, given isActionAllowed's outcome r
authorizeRun(r) ==
  IF ~r.result
  THEN [status |-> 403, error |-> "Access denied by policy", counts |-> r.counts,
        start |-> FALSE]
  ELSE [status |-> 0, error |-> "", counts |-> r.counts, start |-> TRUE]

\* ExecutionController.runCommand up to the dispatch of the subprocess: the
\* response (status 0: none yet), the limiter's map afterwards, and whether an
\* execution id is generated and the subprocess started
runCommand(pols, rc, req, t) ==
  IF req.command = <<>>
  THEN [status |-> 400, error |-> "Command is required", counts |-> rc, start |-> FALSE]
  ELSE IF ~isValidCommand(req.command, req.args)
  THEN [status |-> 400, error |-> "Invalid command or arguments", counts |-> rc,
        start |-> FALSE]
  ELSE authorizeRun(isActionAllowed(pols, rc, contextOf(req, req.command), t))

\* getExecution without the test for a missing record: whatever the map holds
\* is sent with status 200
lookup_noMissingCheck(r, execs, executionId) ==
  IF ~r.result
  THEN [status |-> 403, error |-> "Access denied by policy", counts |-> r.counts,
        body |-> NoRecord]
  ELSE [status |-> 200, error |-> "", counts |-> r.counts,
        body |-> IF executionId \in DOMAIN execs THEN execs[executionId] ELSE NoRecord]

\* getExecution, lines 301-314, given isActionAllowed's outcome r
lookup(r, execs, executionId) ==
  IF ~r.result
  THEN [status |-> 403, error |-> "Access denied by policy", counts |-> r.counts,
        body |-> NoRecord]
  ELSE IF executionId \notin DOMAIN execs
  THEN [status |-> 404, error |-> "Execution not found", counts |-> r.counts,
        body |-> NoRecord]
  ELSE [status |-> 200, error |-> "", counts |-> r.counts, body |-> execs[executionId]]

\* ExecutionController.getExecution
getExecution(pols, rc, execs, req, executionId, t) ==
  lookup(isActionAllowed(pols, rc, contextOf(req, executionId), t), execs, executionId)

\* cancelExecution emptying the map (executions.clear()) instead of deleting
\* the one entry
remove_clearsMap(r, execs, executionId) ==
  IF ~r.result
  THEN [status |-> 403, error |-> "Access denied by policy", counts |-> r.counts,
        executions |-> execs]
  ELSE IF executionId \in DOMAIN execs
  THEN [status |-> 200, error |-> "", counts |-> r.counts, executions |-> EmptyMap]
  ELSE [status |-> 404, error |-> "Execution not found", counts |-> r.counts,
        executions |-> execs]

\* cancelExecution, lines 264-277, given isActionAllowed's outcome r
remove(r, execs, executionId) ==
  IF ~r.result
  THEN [status |-> 403, error |-> "Access denied by policy", counts |-> r.counts,
        executions |-> execs]
  ELSE IF executionId \in DOMAIN execs
  THEN [status |-> 200, error |-> "", counts |-> r.counts,
        executions |-> MapDelete(execs, executionId)]
  ELSE [status |-> 404, error |-> "Execution not found", counts |-> r.counts,
        executions |-> execs]

\* ExecutionController.cancelExecution
cancelExecution(pols, rc, execs, req, executionId, t) ==
  remove(isActionAllowed(pols, rc, contextOf(req, executionId), t), execs, executionId)

\* the ExecutionResult with exitCode: error.code, without the fallback || 1: an
\* error that carries no code (a signal, the timer) leaves no failure code
executionResult_noFallback(executionId, outcome) ==
  CASE outcome = "resolved" -> [executionId |-> executionId, exitCode |-> 0, error |-> ""]
    [] outcome = "failed"   -> [executionId |-> executionId, exitCode |-> 2,
                                error |-> "Command failed"]
    [] outcome = "killed"   -> [executionId |-> executionId, exitCode |-> 0,
                                error |-> "Command failed"]
    [] OTHER                -> [executionId |-> executionId, exitCode |-> 0,
                                error |-> "Command timeout"]

\* the ExecutionResult runCommandDirectly / runCommandInDocker store and send:
\* exitCode 0 when the race resolves, error.code || 1 when it rejects.
\*   resolved  the subprocess exited with code 0 before the timer fired
\*   failed    it exited with a non-zero code (error.code is that code, here 2)
\*   killed    it was ended by a signal (error.code is null)
\*   timeout   the timer rejected first with Error('Command timeout') (no code)
executionResult(executionId, outcome) ==
  CASE outcome = "resolved" -> [executionId |-> executionId, exitCode |-> 0, error |-> ""]
    [] outcome = "failed"   -> [executionId |-> executionId, exitCode |-> 2,
                                error |-> "Command failed"]
    [] outcome = "killed"   -> [executionId |-> executionId, exitCode |-> 1,
                                error |-> "Command failed"]
    [] OTHER                -> [executionId |-> executionId, exitCode |-> 1,
                                error |-> "Command timeout"]

(***************************************************************************)
(* SpecEC: an ExecutionController; policies and requestCounts are those of *)
(* its private PolicyEngine, which holds the default policy                *)
(***************************************************************************)
RequestsEC ==
  { [command |-> <<>>, args |-> <<>>, session |-> <<>>, ip |-> <<"1">>],
    [command |-> <<"l", "s">>, args |-> <<>>, session |-> <<>>, ip |-> <<"1">>],
    [command |-> <<"l", ";">>, args |-> <<>>, session |-> <<>>, ip |-> <<"1">>],
    [command |-> <<"l", "s">>, args |-> << <<"a">>, <<"&", "&">> >>, session |-> <<>>,
     ip |-> <<"1">>] }

\* how the race of the subprocess against the timer may end
Outcomes == {"resolved", "failed", "timeout"}

InitEC ==
  /\ now = 0
  /\ requestCounts = EmptyMap
  /\ policies = addPolicy(<<>>, createDefaultPolicy)
  /\ cfg = [limit |-> defaultLimit, windowMs |-> defaultWindow]
  /\ calls = <<>>
  /\ last = NoLast
  /\ executions = EmptyMap
  /\ inflight = NoneInFlight
  /\ races = <<>>
  /\ globalEngine = defaultEngine

\* POST /execute/run, until the response or the await of Promise.race
RunCommand(req, executionId) ==
  /\ InFlightCount(inflight) < MaxInFlight
  /\ \E r \in {runCommand(policies, requestCounts, req, now)} :
     /\ requestCounts' = r.counts
     /\ inflight' = IF r.start THEN [inflight EXCEPT ![executionId] = @ + 1] ELSE inflight
     /\ last' = [NoLast EXCEPT !.op = "runCommand", !.at = now, !.status = r.status,
                               !.error = r.error, !.command = req.command,
                               !.args = req.args, !.before = requestCounts,
                               !.executionId = IF r.start THEN executionId ELSE <<>>,
                               !.executionsBefore = executions,
                               !.inflightBefore = inflight]
  /\ UNCHANGED <<now, policies, cfg, calls, executions, races, globalEngine>>

\* Promise.race settles for a started execution: the record is stored and sent
Settle(executionId, outcome) ==
  /\ inflight[executionId] > 0
  /\ inflight' = [inflight EXCEPT ![executionId] = @ - 1]
  /\ executions' = MapSet(executions, executionId, executionResult(executionId, outcome))
  /\ last' = [NoLast EXCEPT !.op = "settle", !.at = now, !.status = 200,
                            !.executionId = executionId, !.outcome = outcome,
                            !.body = executionResult(executionId, outcome),
                            !.executionsBefore = executions,
                            !.inflightBefore = inflight]
  /\ UNCHANGED <<now, requestCounts, policies, cfg, calls, races, globalEngine>>

\* GET /execute/:executionId
GetExecution(req, executionId) ==
  /\ \E r \in {getExecution(policies, requestCounts, executions, req, executionId, now)} :
     /\ requestCounts' = r.counts
     /\ last' = [NoLast EXCEPT !.op = "getExecution", !.at = now, !.status = r.status,
                               !.error = r.error, !.executionId = executionId,
                               !.body = r.body, !.before = requestCounts,
                               !.executionsBefore = executions]
  /\ UNCHANGED <<now, policies, cfg, calls, executions, inflight, races, globalEngine>>

\* DELETE /execute/:executionId
CancelExecution(req, executionId) ==
  /\ \E r \in {cancelExecution(policies, requestCounts, executions, req, executionId, now)} :
     /\ requestCounts' = r.counts
     /\ executions' = r.executions
     /\ last' = [NoLast EXCEPT !.op = "cancelExecution", !.at = now, !.status = r.status,
                               !.error = r.error, !.executionId = executionId,
                               !.before = requestCounts,
                               !.executionsBefore = executions]
  /\ UNCHANGED <<now, policies, cfg, calls, inflight, races, globalEngine>>

\* the request GET and DELETE are made with
LookupRequest == [command |-> <<>>, args |-> <<>>, session |-> <<>>, ip |-> <<"1">>]

NextEC ==
  \/ \E req \in RequestsEC : \E id \in ExecutionIds : RunCommand(req, id)
  \/ \E id \in ExecutionIds : \E o \in Outcomes : Settle(id, o)
  \/ \E id \in ExecutionIds : GetExecution(LookupRequest, id)
  \/ \E id \in ExecutionIds : CancelExecution(LookupRequest, id)

SpecEC == InitEC /\ [][NextEC]_vars

\* a string holding one of the denylisted substrings
Denylisted(str) ==
  \E p \in { <<";">>, <<"|", "|">>, <<"&", "&">>, <<"$">>, <<"backtick">>, <<">">>, <<"<">>,
             <<"(">>, <<"{">> } : includes(str, p)

\* each denylisted substring inside a command, and inside a second argument
DenylistedRequests ==
  { [command |-> <<"l">> \o p \o <<"s">>, args |-> <<>>, session |-> <<>>,
     ip |-> <<"1">>] :
      p \in { <<";">>, <<"|", "|">>, <<"&", "&">>, <<"$">>, <<"backtick">>, <<">">>,
              <<"<">>, <<"(">>, <<"{">> } }
  \cup
  { [command |-> <<"l", "s">>, args |-> << <<"a">>, <<"b">> \o p >>, session |-> <<>>,
     ip |-> <<"1">>] :
      p \in { <<";">>, <<"|", "|">>, <<"&", "&">>, <<"$">>, <<"backtick">>, <<">">>,
              <<"<">>, <<"(">>, <<"{">> } }

\* the last request was a runCommand that must fail validation
InvalidRunCommand ==
  /\ last.op = "runCommand"
  /\ \/ last.command = <<>>
     \/ Denylisted(last.command)
     \/ \E a \in 1..Len(last.args) : Denylisted(last.args[a])

\* C9: runCommand with a missing or empty command, or with a command or any
\* argument holding a denylisted substring, answers 400 before authorization:
\* the limiter's counters and the execution records are unchanged, no
\* execution id is generated and no subprocess is started
C9_ValidationPrecedesAuthorization ==
  /\ InvalidRunCommand
     => /\ last.status = 400
        /\ requestCounts = last.before
        /\ executions = last.executionsBefore
        /\ inflight = last.inflightBefore
        /\ last.executionId = <<>>
  /\ \A req \in DenylistedRequests : ~isValidCommand(req.command, req.args)

\* an injection in an argument is refused while records and subprocesses exist
C9_Witness ==
  /\ InvalidRunCommand
  /\ last.command # <<>>
  /\ ~Denylisted(last.command)
  /\ last.status = 400
  /\ DOMAIN requestCounts # {}
  /\ DOMAIN executions # {}
  /\ InFlightCount(inflight) > 0

\* the last request was a valid runCommand that the policy engine denies
DeniedRunCommand ==
  /\ last.op = "runCommand"
  /\ ~InvalidRunCommand
  /\ ~isActionAllowed(policies, last.before,
                      [sessionId |-> Unknown, ipAddress |-> <<"1">>,
                       resource |-> last.command, action |-> "commandExecution"],
                      last.at).result

\* C10: when the PolicyEngine denies a validated command, runCommand answers
\* 403 'Access denied by policy', no subprocess is started, no execution id is
\* generated and the execution records are unchanged
C10_DenialStartsNothing ==
  DeniedRunCommand
  => /\ last.status = 403
     /\ last.error = "Access denied by policy"
     /\ executions = last.executionsBefore
     /\ inflight = last.inflightBefore
     /\ last.executionId = <<>>

C10_Witness ==
  /\ DeniedRunCommand
  /\ last.status = 403
  /\ DOMAIN executions # {}
  /\ InFlightCount(inflight) > 0

\* the policy engine refuses the context GET and DELETE build for the last
\* request's execution id
DeniedLookup ==
  ~isActionAllowed(policies, last.before, contextOf(LookupRequest, last.executionId),
                   last.at).result

\* C12 as stated: every getExecution(id), however often repeated, returns the
\* record stored under id, and not-found once it has been removed
C12_Original ==
  last.op = "getExecution"
  => IF last.executionId \in DOMAIN executions
     THEN last.status = 200 /\ last.body = executions[last.executionId]
     ELSE last.status = 404

\* C12 (amended): getExecution never changes the record map; every
\* getExecution(id) the policy engine allows returns the record stored under id
\* (so repeated lookups return the identical record until cancelExecution(id)
\* removes it) and not-found when none is stored; a lookup the policy engine
\* refuses (the key is over its rate budget) gets 403 instead
C12_LookupIsIdempotent ==
  last.op = "getExecution"
  => /\ executions = last.executionsBefore
     /\ IF DeniedLookup
        THEN last.status = 403 /\ last.body = NoRecord
        ELSE IF last.executionId \in DOMAIN executions
        THEN last.status = 200 /\ last.body = executions[last.executionId]
        ELSE last.status = 404 /\ last.error = "Execution not found"

\* a failed execution's record is returned by a lookup that follows at least
\* two earlier requests of the same caller
C12_Witness ==
  /\ last.op = "getExecution"
  /\ ~DeniedLookup
  /\ last.status = 200
  /\ last.body = executions[last.executionId]
  /\ last.body.exitCode # 0
  /\ last.before[Key(contextOf(LookupRequest, last.executionId))].count >= 3

\* C13: while a subprocess is still running (neither finished nor timed out),
\* a record keyed by its execution id exists and an allowed getExecution(id)
\* finds it
C13_RecordWhileRunning ==
  /\ \A id \in ExecutionIds : inflight[id] > 0 => id \in DOMAIN executions
  /\ (last.op = "getExecution" /\ ~DeniedLookup /\ inflight[last.executionId] > 0)
     => last.status = 200

(***************************************************************************)
(* SpecTO: runCommandDirectly / runCommandInDocker with the clock.  Every  *)
(* accepted runCommand starts a Promise.race of the subprocess promise     *)
(* against a timer; both contestants stay alive after the race is decided  *)
(* (the timer is never cleared, the subprocess is not confirmed killed).   *)
(*   race  [executionId, options, startTime, timeout,                      *)
(*          exec     running | resolved | failed | killed                  *)
(*          timer    armed | fired                                         *)
(*          outcome  "" while the await is pending, else what it got       *)
(*          writes, responses]                                             *)
(***************************************************************************)
\* options.timeout || 30000; an absent timeout is written 0 (both are falsy)
timeoutOf(options) == IF options.timeout = 0 THEN defaultTimeout ELSE options.timeout

\* lines 114-124: the race as it stands when runCommandDirectly awaits it
startRace(executionId, options, t) ==
  [executionId |-> executionId, options |-> options, startTime |-> t,
   timeout |-> timeoutOf(options), exec |-> "running", timer |-> "armed",
   outcome |-> "", writes |-> 0, responses |-> 0]

\* lines 126-153: the continuation of the await, run once with what the race got
settle(race, execs, outcome, t) ==
  [race       |-> [race EXCEPT !.outcome = outcome,
                               !.writes = @ + 1, !.responses = @ + 1],
   executions |-> MapSet(execs, race.executionId,
                         executionResult(race.executionId, outcome)),
   won        |-> TRUE]

\* the subprocess promise handled by its own continuation instead of through
\* Promise.race: it stores and sends a result although the timer already won
afterExec_ownContinuation(race, execs, outcome, t) ==
  settle([race EXCEPT !.exec = outcome], execs, outcome, t)

\* execPromise settles.  Promise.race takes the first settlement only: a
\* subprocess that ends after the timer rejected reaches no continuation.
afterExec(race, execs, outcome, t) ==
  IF race.outcome = ""
  THEN settle([race EXCEPT !.exec = outcome], execs, outcome, t)
  ELSE [race |-> [race EXCEPT !.exec = outcome], executions |-> execs, won |-> FALSE]

\* a timer whose callback does not reject: the race waits for the subprocess
afterTimer_noReject(race, execs, t) ==
  [race |-> [race EXCEPT !.timer = "fired"], executions |-> execs, won |-> FALSE]

\* the setTimeout callback runs: reject(new Error('Command timeout')), which
\* decides the race only when the subprocess promise has not settled before
afterTimer(race, execs, t) ==
  IF race.outcome = ""
  THEN settle([race EXCEPT !.timer = "fired"], execs, "timeout", t)
  ELSE [race |-> [race EXCEPT !.timer = "fired"], executions |-> execs, won |-> FALSE]

\* setTimeout(..., timeout): the time the timer is due
Deadline(race) == race.startTime + race.timeout

\* the due times of the timers not yet fired
ArmedDeadlines ==
  {Deadline(races[i]) : i \in {j \in 1..Len(races) : races[j].timer = "armed"}}

\* req.body.options
OptionsTO == {[timeout |-> 0], [timeout |-> 50]}

\* req.body of POST /execute/run
RequestsTO ==
  { [command |-> c, args |-> <<>>, session |-> <<>>, ip |-> <<"1">>] :
      c \in {<<"l", "s">>, <<"l", ";">>} }

\* how the subprocess promise may settle
ExecOutcomes == {"resolved", "failed", "killed"}

InitTO == InitEC

\* POST /execute/run, until the response or the await of Promise.race
RunCommandTO(req, executionId, options) ==
  /\ Len(races) < MaxRaces
  /\ \E r \in {runCommand(policies, requestCounts, req, now)} :
     /\ requestCounts' = r.counts
     /\ inflight' = IF r.start THEN [inflight EXCEPT ![executionId] = @ + 1] ELSE inflight
     /\ races' = IF r.start THEN Append(races, startRace(executionId, options, now))
                 ELSE races
     /\ last' = [NoLast EXCEPT !.op = "runCommand", !.at = now, !.status = r.status,
                               !.error = r.error, !.command = req.command,
                               !.args = req.args, !.before = requestCounts,
                               !.executionId = IF r.start THEN executionId ELSE <<>>,
                               !.executionsBefore = executions,
                               !.inflightBefore = inflight]
  /\ UNCHANGED <<now, policies, cfg, calls, executions, globalEngine>>

\* the subprocess of race i ends
ExecSettles(i, outcome) ==
  /\ i \in 1..Len(races)
  /\ races[i].exec = "running"
  /\ \E r \in {afterExec(races[i], executions, outcome, now)} :
     /\ races' = [races EXCEPT ![i] = r.race]
     /\ executions' = r.executions
     /\ inflight' = IF r.won THEN [inflight EXCEPT ![races[i].executionId] = @ - 1]
                    ELSE inflight
     /\ last' = [NoLast EXCEPT !.op = "exec", !.at = now, !.result = r.won,
                               !.race = i,
                               !.status = IF r.won THEN 200 ELSE 0,
                               !.executionId = races[i].executionId,
                               !.outcome = outcome,
                               !.body = IF r.won THEN r.executions[races[i].executionId]
                                        ELSE NoRecord,
                               !.executionsBefore = executions,
                               !.inflightBefore = inflight]
  /\ UNCHANGED <<now, requestCounts, policies, cfg, calls, globalEngine>>

\* the timer of race i fires
TimerFires(i) ==
  /\ i \in 1..Len(races)
  /\ races[i].timer = "armed"
  /\ now >= Deadline(races[i])
  /\ \E r \in {afterTimer(races[i], executions, now)} :
     /\ races' = [races EXCEPT ![i] = r.race]
     /\ executions' = r.executions
     /\ inflight' = IF r.won THEN [inflight EXCEPT ![races[i].executionId] = @ - 1]
                    ELSE inflight
     /\ last' = [NoLast EXCEPT !.op = "timer", !.at = now, !.result = r.won,
                               !.race = i,
                               !.status = IF r.won THEN 200 ELSE 0,
                               !.executionId = races[i].executionId,
                               !.outcome = "timeout",
                               !.body = IF r.won THEN r.executions[races[i].executionId]
                                        ELSE NoRecord,
                               !.executionsBefore = executions,
                               !.inflightBefore = inflight]
  /\ UNCHANGED <<now, requestCounts, policies, cfg, calls, globalEngine>>

\* time passes, by a millisecond or up to the next timer; a due timer fires
\* before the clock moves on
Advance(t) ==
  /\ t > now
  /\ \A d \in ArmedDeadlines : t <= d
  /\ \/ t = now + 1 /\ now < MaxClock
     \/ t \in ArmedDeadlines
  /\ now' = t
  /\ UNCHANGED <<requestCounts, policies, cfg, calls, last, executions,
                 inflight, races, globalEngine>>

TimerStep == \E i \in 1..MaxRaces : TimerFires(i)

ClockStep == \E t \in {now + 1} \cup ArmedDeadlines : Advance(t)

NextTO ==
  \/ \E req \in RequestsTO : \E id \in ExecutionIds : \E o \in OptionsTO :
       RunCommandTO(req, id, o)
  \/ \E i \in 1..MaxRaces : \E o \in ExecOutcomes : ExecSettles(i, o)
  \/ TimerStep
  \/ ClockStep

\* the event loop runs due timers and time does not stop; nothing makes a
\* subprocess end
SpecTO == InitTO /\ [][NextTO]_vars /\ WF_vars(TimerStep) /\ WF_vars(ClockStep)

\* the last step decided the race of an accepted runCommand
RaceDecided == last.op \in {"exec", "timer"} /\ last.result

\* C11: a runCommand that passed validation and authorization ends with a 200
\* response whose ExecutionResult is also stored under its executionId,
\* whatever the outcome of the subprocess; the exitCode is 0 exactly when the
\* subprocess completed successfully before the timer fired, and non-zero
\* when it failed, was killed or timed out
C11_OutcomeIsData ==
  RaceDecided
  => /\ last.status = 200
     /\ last.executionId \in DOMAIN executions
     /\ executions[last.executionId] = last.body
     /\ last.body.executionId = last.executionId
     /\ (last.body.exitCode = 0) = (last.op = "exec" /\ last.outcome = "resolved")

\* the subprocess was ended by a signal before the timer fired: the failure is
\* returned as a normal result and stored
C11_Witness ==
  /\ RaceDecided
  /\ last.op = "exec"
  /\ last.outcome = "killed"
  /\ last.status = 200
  /\ executions[last.executionId].exitCode # 0
  /\ \E i \in 1..Len(races) : last.race = i /\ races[i].timer = "armed"

\* the last step was the loser of a race: a subprocess ending after the
\* timeout was recorded, or a timer firing after the subprocess finished
LoserStep == last.op \in {"exec", "timer"} /\ ~last.result

\* C14: every accepted runCommand writes exactly one record under its
\* execution id and sends exactly one response, both when its race is decided;
\* the loser of the race writes no record and sends no response
C14_OneRecordOneResponse ==
  /\ \A i \in 1..Len(races) :
       /\ races[i].writes = (IF races[i].outcome = "" THEN 0 ELSE 1)
       /\ races[i].responses = races[i].writes
  /\ LoserStep => (executions = last.executionsBefore /\ inflight = last.inflightBefore)

\* the subprocess ended after its timeout had been recorded
C14_Witness ==
  /\ LoserStep
  /\ last.op = "exec"
  /\ \E i \in 1..Len(races) :
       /\ last.race = i
       /\ races[i].outcome = "timeout"
       /\ races[i].exec = last.outcome
       /\ races[i].writes = 1
       /\ races[i].responses = 1
  /\ executions[last.executionId].error = "Command timeout"

\* the configured timeout of a request: options.timeout, 30000 ms by default
ConfiguredTimeout(options) == IF options.timeout = 0 THEN 30000 ELSE options.timeout

\* the last step decided race i: it stored the record and sent the response
Decided(i) == last.op \in {"exec", "timer"} /\ last.result /\ last.race = i

\* no race is pending later than the configured timeout after its start, none
\* is decided later than that, and a race the timer decided left a failure
\* record holding the timeout error
C15_Bounded ==
  /\ \A i \in 1..Len(races) :
       /\ races[i].outcome = ""
          => now <= races[i].startTime + ConfiguredTimeout(races[i].options)
       /\ Decided(i)
          => /\ races[i].outcome = last.outcome
             /\ last.at <= races[i].startTime + ConfiguredTimeout(races[i].options)
             /\ races[i].responses = 1
             /\ executions[races[i].executionId].executionId = races[i].executionId
  /\ (last.op = "timer" /\ last.result)
     => /\ executions[last.executionId].exitCode # 0
        /\ executions[last.executionId].error = "Command timeout"

C16_FreshExecutionIds ==
  /\ (last.op = "runCommand" /\ last.executionId # <<>>)
     => /\ last.inflightBefore[last.executionId] = 0
        /\ last.executionId \notin DOMAIN last.executionsBefore
  /\ last.op = "settle" => last.executionId \notin DOMAIN last.executionsBefore

\* the record map is the map before the last request without the entry of the
\* last request's execution id
RemovedOnlyThat ==
  /\ DOMAIN executions = DOMAIN last.executionsBefore \ {last.executionId}
  /\ \A id \in DOMAIN executions : executions[id] = last.executionsBefore[id]

\* C17 as stated: cancelExecution(id) reports success exactly when a record for
\* id is present, then removing that record and no other, and reports
\* not-found (404) with the map unchanged when none is present
C17_Original ==
  last.op = "cancelExecution"
  => IF last.executionId \in DOMAIN last.executionsBefore
     THEN last.status = 200 /\ RemovedOnlyThat
     ELSE last.status = 404 /\ executions = last.executionsBefore

\* C17 (amended): a cancelExecution(id) the policy engine allows reports success
\* exactly when a record for id is present, removing that record and no other,
\* and not-found (404) with the map unchanged when none is present; a
\* cancelExecution the policy engine refuses gets 403 and changes no record
C17_CancelRemovesExactlyThat ==
  last.op = "cancelExecution"
  => IF DeniedLookup
     THEN last.status = 403 /\ executions = last.executionsBefore
     ELSE IF last.executionId \in DOMAIN last.executionsBefore
     THEN last.status = 200 /\ RemovedOnlyThat
     ELSE /\ last.status = 404
          /\ last.error = "Execution not found"
          /\ executions = last.executionsBefore

\* one of two stored records is cancelled, the other stays
C17_Witness ==
  /\ last.op = "cancelExecution"
  /\ ~DeniedLookup
  /\ last.status = 200
  /\ Cardinality(DOMAIN last.executionsBefore) = 2
  /\ Cardinality(DOMAIN executions) = 1
  /\ last.executionId \notin DOMAIN executions

\* the rule at position pr
RuleAt(pr) == policies[pr[1]].rules[pr[2]]

\* C18: whatever the type of a stored rule, the rule is skipped for a context
\* whose action differs from its type, so the rule that decides
\* isActionAllowed has the context's action as its type; a rule whose type is
\* none of fileAccess, commandExecution, networkAccess, rateLimit matches no
\* context
C18_TypeMustEqualAction ==
  (last.op = "isActionAllowed" /\ ~OverBudget /\ Len(policies) >= 1)
  => /\ \A pr \in RulePositions : IsFirstMatch(pr) => RuleAt(pr).type = last.ctx.action
     /\ \A pr \in RulePositions :
          RuleAt(pr).type \notin {"fileAccess", "commandExecution", "networkAccess",
                                   "rateLimit"}
          => ~Matches(pr[1], pr[2])

\* pr is the first rule of type rateLimit, in policy then rule order, that
\* matches the last call's context
IsFirstRateLimitMatch(pr) ==
  /\ RuleAt(pr).type = "rateLimit"
  /\ Matches(pr[1], pr[2])
  /\ \A qs \in RulePositions :
       (RuleAt(qs).type = "rateLimit" /\ Matches(qs[1], qs[2])) => NoLater(pr, qs)

\* the positions of the rule's rateLimit conditions with this operator
ConditionsOf(rule, operator) ==
  {i \in 1..Len(rule.conditions) :
     rule.conditions[i].type = "rateLimit" /\ rule.conditions[i].operator = operator}

\* the value the rule carries for the operator, dflt when no condition carries one
Carried(rule, operator, dflt) ==
  IF ConditionsOf(rule, operator) = {} THEN dflt
  ELSE rule.conditions[CHOOSE i \in ConditionsOf(rule, operator) :
                         \A j \in ConditionsOf(rule, operator) : i <= j].value

\* C20: the RateLimiter is invoked with exactly the limit L and window W that
\* the first matching rateLimit rule carries; 100 and 60000 are used only for
\* a parameter whose condition is absent, or when no rateLimit rule matches
C20_GateParameters ==
  last.op = "isActionAllowed"
  => /\ \A pr \in RulePositions :
          IsFirstRateLimitMatch(pr)
          => /\ last.limit = Carried(RuleAt(pr), "limit", 100)
             /\ last.windowMs = Carried(RuleAt(pr), "window", 60000)
     /\ (\A pr \in RulePositions : ~IsFirstRateLimitMatch(pr))
        => (last.limit = 100 /\ last.windowMs = 60000)

(***************************************************************************)
(* SpecPM: PolicyEngine.matchesResourcePattern on every pattern and        *)
(* resource of at most MaxLen characters over the alphabet "*", "a", "/"   *)
(***************************************************************************)
\* the strings of at most MaxLen characters
StringsPM == UNION { [1..n -> {"*", "a", "/"}] : n \in 0..MaxLen }

InitPM ==
  /\ now = 0
  /\ requestCounts = EmptyMap
  /\ policies = <<>>
  /\ cfg = [limit |-> defaultLimit, windowMs |-> defaultWindow]
  /\ calls = <<>>
  /\ \E pattern \in StringsPM : \E resource \in StringsPM :
       last = [NoLast EXCEPT !.op = "input", !.pattern = pattern,
                             !.ctx = [NoContext EXCEPT !.resource = resource]]
  /\ executions = EmptyMap
  /\ inflight = NoneInFlight
  /\ races = <<>>
  /\ globalEngine = newPolicyEngine

\* this.matchesResourcePattern(rule.resource, context.resource)
MatchesResourcePatternCall ==
  /\ last.op = "input"
  /\ last' = [last EXCEPT !.op = "matchesResourcePattern",
                          !.result = matchesResourcePattern(last.pattern, last.ctx.resource)]
  /\ UNCHANGED <<now, requestCounts, policies, cfg, calls, executions,
                 inflight, races, globalEngine>>

NextPM == MatchesResourcePatternCall

SpecPM == InitPM /\ [][NextPM]_vars

\* the rule of the claim, character by character: the pattern is "*", or equals
\* the resource, or ends with "*" and the resource starts with the characters
\* before that final "*"
PatternRule(pattern, resource) ==
  \/ pattern = <<"*">>
  \/ pattern = resource
  \/ /\ Len(pattern) >= 1
     /\ pattern[Len(pattern)] = "*"
     /\ Len(resource) >= Len(pattern) - 1
     /\ \A i \in 1..(Len(pattern) - 1) : resource[i] = pattern[i]

\* C19: a pattern matches a resource iff the pattern is "*", or equals the
\* resource, or ends with "*" and the resource starts with the pattern minus
\* its final "*"; "*" matches the empty string, "src/*" matches "src/a.ts" and
\* not "lib/a.ts", and a "*" anywhere but the end is a literal character
C19_ResourcePattern ==
  /\ last.op = "matchesResourcePattern"
     => last.result = PatternRule(last.pattern, last.ctx.resource)
  /\ matchesResourcePattern(<<"*">>, <<>>)
  /\ matchesResourcePattern(<<"s", "r", "c", "/", "*">>,
                            <<"s", "r", "c", "/", "a", ".", "t", "s">>)
  /\ ~matchesResourcePattern(<<"s", "r", "c", "/", "*">>,
                             <<"l", "i", "b", "/", "a", ".", "t", "s">>)
  /\ ~matchesResourcePattern(<<"s", "*", "c">>, <<"s", "r", "c">>)
  /\ matchesResourcePattern(<<"s", "*", "c">>, <<"s", "*", "c">>)

\* a "*" inside the pattern is matched literally, the final one is the wildcard
C19_Witness ==
  /\ last.op = "matchesResourcePattern"
  /\ last.pattern = <<"*", "a", "*">>
  /\ last.ctx.resource = <<"*", "a", "/">>
  /\ last.result = TRUE

(***************************************************************************)
(* SpecRS: a RateLimiter with all of its operations.  isAllowed is called  *)
(* with the limit and window fixed at the start, as in SpecRL.             *)
(***************************************************************************)
\* three identities; the first two differ in where the ':' stands
ContextsRS ==
  { [sessionId |-> <<"a", ":">>, ipAddress |-> <<"1">>, resource |-> <<"l", "s">>,
     action |-> "commandExecution"],
    [sessionId |-> <<"a">>, ipAddress |-> <<":", "1">>, resource |-> <<"l", "s">>,
     action |-> "commandExecution"],
    [sessionId |-> <<"b">>, ipAddress |-> <<"1">>, resource |-> <<"l", "s">>,
     action |-> "commandExecution"] }

InitRS == InitRL

\* rateLimiter.isAllowed(ctx, cfg.limit, cfg.windowMs)
IsAllowedRS(ctx) ==
  /\ \E r \in {isAllowed(requestCounts, ctx, now, cfg.limit, cfg.windowMs)} :
     /\ requestCounts' = r.counts
     /\ last' = [NoLast EXCEPT !.op = "isAllowed", !.ctx = ctx, !.at = now,
                               !.result = r.allowed, !.before = requestCounts,
                               !.limit = cfg.limit, !.windowMs = cfg.windowMs]
  /\ UNCHANGED <<now, policies, cfg, calls, executions, inflight, races, globalEngine>>

\* rateLimiter.getRateLimitStatus(ctx)
GetRateLimitStatusCall(ctx) ==
  /\ \E r \in {getRateLimitStatus(requestCounts, ctx, now)} :
     last' = [NoLast EXCEPT !.op = "getRateLimitStatus", !.ctx = ctx, !.at = now,
                            !.before = requestCounts, !.remaining = r.remaining,
                            !.resetTime = r.resetTime, !.limit = r.limit]
  /\ UNCHANGED <<now, requestCounts, policies, cfg, calls, executions,
                 inflight, races, globalEngine>>

\* rateLimiter.reset(ctx)
ResetCall(ctx) ==
  /\ requestCounts' = reset(requestCounts, ctx)
  /\ last' = [NoLast EXCEPT !.op = "reset", !.ctx = ctx, !.at = now,
                            !.before = requestCounts]
  /\ UNCHANGED <<now, policies, cfg, calls, executions, inflight, races, globalEngine>>

\* rateLimiter.cleanup()
CleanupCall ==
  /\ requestCounts' = cleanup(requestCounts, now)
  /\ last' = [NoLast EXCEPT !.op = "cleanup", !.at = now, !.before = requestCounts]
  /\ UNCHANGED <<now, policies, cfg, calls, executions, inflight, races, globalEngine>>

NextRS ==
  \/ \E ctx \in ContextsRS : IsAllowedRS(ctx)
  \/ \E ctx \in ContextsRS : GetRateLimitStatusCall(ctx)
  \/ \E ctx \in ContextsRS : ResetCall(ctx)
  \/ CleanupCall
  \/ Tick

SpecRS == InitRS /\ [][NextRS]_vars

(***************************************************************************)
(* Claims about the RateLimiter with all of its operations (SpecRS)        *)
(***************************************************************************)
\* the number of isAllowed calls for ctx, made one after the other at time t
\* with the limit and window in use, that are allowed; counted up to n
RECURSIVE FurtherAllowed(_, _, _, _)
FurtherAllowed(rc, ctx, t, n) ==
  IF n = 0 \/ ~isAllowed(rc, ctx, t, cfg.limit, cfg.windowMs).allowed
  THEN 0
  ELSE 1 + FurtherAllowed(isAllowed(rc, ctx, t, cfg.limit, cfg.windowMs).counts,
                          ctx, t, n - 1)

\* C21: getRateLimitStatus reports the remaining budget of the key: the
\* reported `remaining` is never negative, it equals the number of further
\* isAllowed calls for that key that would be allowed, and the call changes
\* no record.
C21_StatusIsRemainingBudget ==
  last.op = "getRateLimitStatus" =>
    /\ last.remaining >= 0
    /\ last.remaining = FurtherAllowed(last.before, last.ctx, last.at, defaultLimit + 1)
    /\ requestCounts = last.before

\* the (sessionId, ipAddress) pair of a context
Identity(ctx) == <<ctx.sessionId, ctx.ipAddress>>

\* C27: identity isolation: an isAllowed or reset call for one
\* (sessionId, ipAddress) pair never changes the result of isAllowed for a
\* different pair, also when sessionId or ipAddress contain ':'.
C27_IdentityIsolation ==
  last.op \in {"isAllowed", "reset"} =>
    \A c \in ContextsRS :
      Identity(c) # Identity(last.ctx) =>
        isAllowed(requestCounts, c, last.at, cfg.limit, cfg.windowMs).allowed
          = isAllowed(last.before, c, last.at, cfg.limit, cfg.windowMs).allowed

\* the record of key in rc was inside its window at time t
LiveIn(rc, key, t) == key \in DOMAIN rc /\ t < rc[key].resetTime

\* C28: record invariant of the RateLimiter: every stored record has
\* count >= 1, and count <= N when every isAllowed call passes the same limit
\* N >= 1; an allowed call inside a live window raises count by exactly one
\* and leaves resetTime alone; no operation lowers the count of a live
\* record.
C28_RecordInvariant ==
  /\ \A key \in DOMAIN requestCounts :
       /\ requestCounts[key].count >= 1
       /\ cfg.limit >= 1 => requestCounts[key].count <= cfg.limit
  /\ (last.op = "isAllowed" /\ last.result /\ LiveIn(last.before, Key(last.ctx), last.at)) =>
       /\ Key(last.ctx) \in DOMAIN requestCounts
       /\ requestCounts[Key(last.ctx)] =
            [count     |-> last.before[Key(last.ctx)].count + 1,
             resetTime |-> last.before[Key(last.ctx)].resetTime]
  /\ \A key \in DOMAIN last.before \cap DOMAIN requestCounts :
       LiveIn(last.before, key, last.at) =>
         requestCounts[key].count >= last.before[key].count

\* an allowed call inside a live window brought a record to the limit 2
C28_Witness ==
  /\ last.op = "isAllowed" /\ last.result
  /\ LiveIn(last.before, Key(last.ctx), last.at)
  /\ cfg.limit = 2
  /\ requestCounts[Key(last.ctx)].count = 2

\* the answers a client gets at time t from the map rc
Answers(rc, ctx, t) ==
  [allowed |-> isAllowed(rc, ctx, t, cfg.limit, cfg.windowMs).allowed,
   status  |-> getRateLimitStatus(rc, ctx, t)]

\* the records of rc that a later call at time t or after can still read
\* as live
LiveRecords(rc, t) == {<<key, rc[key]>> : key \in {k \in DOMAIN rc : t < rc[k].resetTime}}

\* C29: cleanup() is observationally transparent: it removes exactly the
\* records whose window has expired and no live one, and in every state the
\* isAllowed and getRateLimitStatus answers, and the live records left by
\* isAllowed, are the same with and without a cleanup() run first.
C29_CleanupIsTransparent ==
  /\ last.op = "cleanup" =>
       /\ DOMAIN requestCounts \subseteq DOMAIN last.before
       /\ \A key \in DOMAIN last.before :
            IF last.at >= last.before[key].resetTime
            THEN key \notin DOMAIN requestCounts
            ELSE key \in DOMAIN requestCounts /\ requestCounts[key] = last.before[key]
  /\ \A ctx \in ContextsRS :
       /\ Answers(cleanup(requestCounts, now), ctx, now) = Answers(requestCounts, ctx, now)
       /\ LiveRecords(isAllowed(cleanup(requestCounts, now), ctx, now,
                                cfg.limit, cfg.windowMs).counts, now)
            = LiveRecords(isAllowed(requestCounts, ctx, now,
                                    cfg.limit, cfg.windowMs).counts, now)

\* a cleanup() removed an expired record and kept a live one that is at its
\* limit
C29_Witness ==
  /\ last.op = "cleanup"
  /\ DOMAIN requestCounts # DOMAIN last.before
  /\ \E key \in DOMAIN requestCounts :
       /\ now < requestCounts[key].resetTime
       /\ requestCounts[key].count >= cfg.limit

(***************************************************************************)
(* Claims about concurrent executions and cancellation (SpecEC)            *)
(***************************************************************************)
\* C22: concurrent executions are independent: the completion (or timeout)
\* of one execution stores that execution's own record and never creates,
\* changes or removes the record of another execution, so the final record
\* map does not depend on the order of completion.
C22_IndependentExecutions ==
  last.op = "settle" =>
    /\ executions[last.executionId] = last.body
    /\ DOMAIN executions = DOMAIN last.executionsBefore \cup {last.executionId}
    /\ \A id \in DOMAIN last.executionsBefore :
         executions[id] = last.executionsBefore[id]

\* C23: once cancelExecution(id) has reported success no record for id
\* reappears: the event that follows a successful cancelExecution(id), be it
\* a completion or a timer, leaves id without a record.
C23_CancelledStaysRemoved ==
  [][(last.op = "cancelExecution" /\ last.status = 200)
       => last.executionId \notin DOMAIN executions']_vars

(***************************************************************************)
(* Claims about the rate budget and the policy order (Spec)                *)
(***************************************************************************)
\* the map after differs from the map before by one unit of key's budget:
\* one more in a live window, or a new window with count 1
ConsumedOne(before, after, key, t, windowMs) ==
  /\ DOMAIN after = DOMAIN before \cup {key}
  /\ \A k \in DOMAIN before \ {key} : after[k] = before[k]
  /\ after[key] = IF LiveIn(before, key, t)
                  THEN [count     |-> before[key].count + 1,
                        resetTime |-> before[key].resetTime]
                  ELSE [count |-> 1, resetTime |-> t + windowMs]

\* GET or DELETE /execute/:executionId from the identity of Contexts
LookupFrom == [LookupRequest EXCEPT !.session = <<"s">>]

\* the key of that identity is within the default budget now
WithinDefaultBudget(key) ==
  ~(LiveIn(requestCounts, key, now) /\ requestCounts[key].count >= defaultLimit)

\* C24: every isActionAllowed call that passes the rate-limit gate consumes
\* exactly one unit of the caller's budget whatever the policies then decide
\* (allow, deny rule or default deny); getExecution and cancelExecution
\* consume a unit in the same way.
C24_GateConsumesOneUnit ==
  /\ (last.op = "isActionAllowed" /\ last.rateAllowed) =>
       ConsumedOne(last.before, requestCounts, Key(last.ctx), last.at, last.windowMs)
  /\ \A id \in ExecutionIds :
       WithinDefaultBudget(Key(contextOf(LookupFrom, id))) =>
         /\ ConsumedOne(requestCounts,
                        getExecution(policies, requestCounts, executions,
                                     LookupFrom, id, now).counts,
                        Key(contextOf(LookupFrom, id)), now, defaultWindow)
         /\ ConsumedOne(requestCounts,
                        cancelExecution(policies, requestCounts, executions,
                                        LookupFrom, id, now).counts,
                        Key(contextOf(LookupFrom, id)), now, defaultWindow)

\* a request inside a live window passed the gate, was denied by the policies
\* and is counted; a getExecution now would be refused by the policies too
C24_Witness ==
  /\ last.op = "isActionAllowed" /\ last.rateAllowed /\ ~last.result
  /\ Len(policies) >= 1
  /\ LiveIn(last.before, Key(last.ctx), last.at)
  /\ requestCounts[Key(last.ctx)].count = last.before[Key(last.ctx)].count + 1
  /\ getExecution(policies, requestCounts, executions, LookupFrom,
                  <<"e", "1">>, now).status = 403

\* C25: for a context whose action is not 'rateLimit' no rateLimit rule
\* matches, so the gate calls the RateLimiter with the defaults (100 requests
\* per 60000 ms) whatever the registered policies declare.
C25_DefaultsForOtherActions ==
  /\ (last.op = "isActionAllowed" /\ last.ctx.action # "rateLimit") =>
       /\ \A pr \in RulePositions :
            RuleAt(pr).type = "rateLimit" => ~Matches(pr[1], pr[2])
       /\ last.limit = defaultLimit
       /\ last.windowMs = defaultWindow
  /\ \A ctx \in Contexts :
       \A a \in {"fileAccess", "commandExecution", "networkAccess"} :
         /\ isRateLimited(policies, requestCounts, [ctx EXCEPT !.action = a],
                          now).limit = defaultLimit
         /\ isRateLimited(policies, requestCounts, [ctx EXCEPT !.action = a],
                          now).windowMs = defaultWindow

\* a commandExecution request beyond the declared limit of 1 passes the gate
\* while a rateLimit rule for every resource is registered
C25_Witness ==
  /\ last.op = "isActionAllowed" /\ last.ctx.action = "commandExecution"
  /\ \E pr \in RulePositions :
       /\ RuleAt(pr).type = "rateLimit"
       /\ RuleAt(pr).resource = <<"*">>
       /\ Carried(RuleAt(pr), "limit", defaultLimit) = 1
  /\ LiveIn(last.before, Key(last.ctx), last.at)
  /\ last.before[Key(last.ctx)].count >= 1
  /\ last.rateAllowed
  /\ last.limit = defaultLimit

(***************************************************************************)
(* SpecPO: a PolicyEngine whose addPolicy and removePolicy calls are       *)
(* logged in calls, oldest first                                           *)
(***************************************************************************)
InitPO == InitCommon

\* policyEngine.addPolicy(policy)
AddPolicyPO(policy) ==
  /\ Len(calls) < MaxOps
  /\ policies' = addPolicy(policies, policy)
  /\ calls' = Append(calls, [op |-> "addPolicy", id |-> policy.id, rules |-> policy.rules])
  /\ UNCHANGED <<now, requestCounts, cfg, last, executions, inflight, races,
                 globalEngine>>

\* policyEngine.removePolicy(id)
RemovePolicyPO(id) ==
  /\ Len(calls) < MaxOps
  /\ policies' = removePolicy(policies, id)
  /\ calls' = Append(calls, [op |-> "removePolicy", id |-> id, rules |-> <<>>])
  /\ UNCHANGED <<now, requestCounts, cfg, last, executions, inflight, races,
                 globalEngine>>

NextPO ==
  \/ \E id \in PolicyIds : \E rules \in RuleLists : AddPolicyPO([id |-> id, rules |-> rules])
  \/ \E id \in PolicyIds : RemovePolicyPO(id)

SpecPO == InitPO /\ [][NextPO]_vars

\* the positions in the log of the calls op(id)
CallsPO(op, id) == {i \in 1..Len(calls) : calls[i].op = op /\ calls[i].id = id}

\* the position of the last removePolicy(id), 0 when there is none
LastRemoval(id) ==
  IF CallsPO("removePolicy", id) = {} THEN 0
  ELSE CHOOSE i \in CallsPO("removePolicy", id) :
         \A j \in CallsPO("removePolicy", id) : j <= i

\* the addPolicy calls for id since its last removal
AddedSince(id) == {i \in CallsPO("addPolicy", id) : i > LastRemoval(id)}

\* the position of the first insertion of id since its last removal
FirstInsertion(id) == CHOOSE i \in AddedSince(id) : \A j \in AddedSince(id) : i <= j

\* the rules of the last addPolicy for id
LastContent(id) ==
  calls[CHOOSE i \in AddedSince(id) : \A j \in AddedSince(id) : j <= i].rules

\* the policies holding a rule that matches ctx
MatchingPolicies(ctx) ==
  {i \in 1..Len(policies) :
     \E r \in 1..Len(policies[i].rules) : evaluateRule(policies[i].rules[r], ctx)}

\* the action of the first rule of policy i that matches ctx
FirstActionOf(i, ctx) ==
  policies[i].rules[CHOOSE r \in 1..Len(policies[i].rules) :
                      /\ evaluateRule(policies[i].rules[r], ctx)
                      /\ \A q \in 1..(r - 1) : ~evaluateRule(policies[i].rules[q], ctx)
                   ].action

\* C26: addPolicy with an id already registered replaces the content and
\* keeps the position; removePolicy followed by addPolicy moves the id to the
\* end: the registered policies are those added since their last removal, with
\* the content of their last addPolicy, in the order of their first insertion
\* since their last removal, and that order decides which policy's matching
\* rule wins.
C26_OrderOfFirstInsertion ==
  /\ {policies[i].id : i \in 1..Len(policies)} = {id \in PolicyIds : AddedSince(id) # {}}
  /\ \A i \in 1..Len(policies) :
       /\ policies[i].rules = LastContent(policies[i].id)
       /\ \A j \in 1..Len(policies) :
            i < j => FirstInsertion(policies[i].id) < FirstInsertion(policies[j].id)
  /\ \A ctx \in Contexts :
       \A i \in MatchingPolicies(ctx) :
         (\A j \in MatchingPolicies(ctx) :
            FirstInsertion(policies[i].id) <= FirstInsertion(policies[j].id))
         => isActionAllowed(policies, requestCounts, ctx, now).result
              = (FirstActionOf(i, ctx) = "allow")

\* the policy inserted first was set again with other rules after the second
\* one was inserted; it still comes first and its deny rule wins over the
\* second policy's allow rule
C26_Witness ==
  /\ Len(calls) = 3
  /\ calls[3].op = "addPolicy" /\ calls[3].id = calls[1].id
  /\ calls[1].op = "addPolicy" /\ calls[3].rules # calls[1].rules
  /\ calls[2].op = "addPolicy" /\ calls[2].id # calls[1].id
  /\ Len(policies) = 2
  /\ policies[1].id = calls[3].id
  /\ \E ctx \in Contexts :
       /\ MatchingPolicies(ctx) = {1, 2}
       /\ FirstActionOf(1, ctx) = "deny"
       /\ FirstActionOf(2, ctx) = "allow"
       /\ ~isActionAllowed(policies, requestCounts, ctx, now).result

(***************************************************************************)
(* SpecGL: the server of index.ts.  Every request passes the rate-limit    *)
(* middleware, which asks the global PolicyEngine, before its route; the   *)
(* /policy routes act on the global engine, the /execute routes on the     *)
(* ExecutionController, whose engine is (policies, requestCounts).         *)
(* Requests to the /policy routes are logged in calls.                     *)
(***************************************************************************)
\* rateLimitMiddleware's context for a request to path
middlewareContext(req, path) ==
  [sessionId |-> IF req.session = <<>> THEN Unknown ELSE req.session,
   ipAddress |-> IF req.ip = <<>> THEN Unknown ELSE req.ip,
   resource  |-> path,
   action    |-> "rateLimit"]

\* rateLimitMiddleware, given isActionAllowed's outcome r: next() or 429, and
\* the engine afterwards
afterMiddleware(engine, r) ==
  [passed |-> r.result,
   engine |-> [policies |-> engine.policies, requestCounts |-> r.counts]]

\* rateLimitMiddleware on the engine it imports from index.ts
rateLimitMiddleware(engine, req, path, t) ==
  afterMiddleware(engine, isActionAllowed(engine.policies, engine.requestCounts,
                                          middlewareContext(req, path), t))

\* PolicyController.createPolicy
createPolicy(engine, policyData) ==
  [status |-> 201,
   engine |-> [policies |-> addPolicy(engine.policies, policyData),
               requestCounts |-> engine.requestCounts]]

\* PolicyController.deletePolicy
deletePolicy(engine, policyId) ==
  IF policyIndex(engine.policies, policyId, 1) = 0
  THEN [status |-> 404, engine |-> engine]
  ELSE [status |-> 200,
        engine |-> [policies |-> removePolicy(engine.policies, policyId),
                    requestCounts |-> engine.requestCounts]]

\* the ExecutionController asking the engine exported by index.ts
authorizingEngine_shared(own, shared) == shared

\* the engine the ExecutionController asks: the one its constructor made
authorizingEngine(own, shared) == own

\* this.policyEngine of the ExecutionController
OwnEngine == [policies |-> policies, requestCounts |-> requestCounts]

\* req.path of the requests
ExecutePath == <<"/", "e">>
PolicyPath == <<"/", "p">>

\* POST /execute with a valid command
RunRequestGL == [command |-> <<"l", "s">>, args |-> <<>>, session |-> <<>>, ip |-> <<"1">>]

\* bodies of POST /policy: a default-policy that denies every command and
\* whose rate limit is above the default, and a policy that denies every
\* command
PoliciesGL ==
  { [id |-> "default-policy",
     rules |-> << Rule("deny-commands", "commandExecution", "deny", <<"*">>, <<>>),
                  Rule("lenient-rate-limit", "rateLimit", "allow", <<"*">>,
                       << [type |-> "rateLimit", operator |-> "limit",
                           value |-> defaultLimit + 2] >>) >>],
    [id |-> "lockdown",
     rules |-> << Rule("deny-all-commands", "commandExecution", "deny", <<"*">>, <<>>) >>] }

InitGL == InitEC

\* the 429 of the middleware: the route is not reached
Rejected(op, req, resource) ==
  [NoLast EXCEPT !.op = op, !.at = now, !.status = 429,
                 !.error = "Rate limit exceeded", !.ctx = contextOf(req, resource),
                 !.before = requestCounts, !.executionsBefore = executions,
                 !.inflightBefore = inflight]

\* POST /execute
RunCommandGL(req, executionId) ==
  /\ InFlightCount(inflight) < MaxInFlight
  /\ \E m \in {rateLimitMiddleware(globalEngine, req, ExecutePath, now)} :
     /\ globalEngine' = m.engine
     /\ IF ~m.passed
        THEN /\ last' = Rejected("runCommand", req, req.command)
             /\ UNCHANGED <<requestCounts, inflight>>
        ELSE \E r \in {runCommand(authorizingEngine(OwnEngine, m.engine).policies,
                                   authorizingEngine(OwnEngine, m.engine).requestCounts,
                                   req, now)} :
             /\ requestCounts' = r.counts
             /\ inflight' = IF r.start THEN [inflight EXCEPT ![executionId] = @ + 1]
                            ELSE inflight
             /\ last' = [NoLast EXCEPT !.op = "runCommand", !.at = now,
                                       !.status = r.status, !.error = r.error,
                                       !.ctx = contextOf(req, req.command),
                                       !.command = req.command, !.args = req.args,
                                       !.before = requestCounts,
                                       !.executionId = IF r.start THEN executionId ELSE <<>>,
                                       !.executionsBefore = executions,
                                       !.inflightBefore = inflight]
  /\ UNCHANGED <<now, policies, cfg, calls, executions, races>>

\* GET /execute/:executionId
GetExecutionGL(req, executionId) ==
  /\ \E m \in {rateLimitMiddleware(globalEngine, req, ExecutePath, now)} :
     /\ globalEngine' = m.engine
     /\ IF ~m.passed
        THEN /\ last' = Rejected("getExecution", req, executionId)
             /\ UNCHANGED requestCounts
        ELSE \E r \in {getExecution(authorizingEngine(OwnEngine, m.engine).policies,
                                     authorizingEngine(OwnEngine, m.engine).requestCounts,
                                     executions, req, executionId, now)} :
             /\ requestCounts' = r.counts
             /\ last' = [NoLast EXCEPT !.op = "getExecution", !.at = now,
                                       !.status = r.status, !.error = r.error,
                                       !.ctx = contextOf(req, executionId),
                                       !.executionId = executionId, !.body = r.body,
                                       !.before = requestCounts,
                                       !.executionsBefore = executions]
  /\ UNCHANGED <<now, policies, cfg, calls, executions, inflight, races>>

\* DELETE /execute/:executionId
CancelExecutionGL(req, executionId) ==
  /\ \E m \in {rateLimitMiddleware(globalEngine, req, ExecutePath, now)} :
     /\ globalEngine' = m.engine
     /\ IF ~m.passed
        THEN /\ last' = Rejected("cancelExecution", req, executionId)
             /\ UNCHANGED <<requestCounts, executions>>
        ELSE \E r \in {cancelExecution(authorizingEngine(OwnEngine, m.engine).policies,
                                        authorizingEngine(OwnEngine, m.engine).requestCounts,
                                        executions, req, executionId, now)} :
             /\ requestCounts' = r.counts
             /\ executions' = r.executions
             /\ last' = [NoLast EXCEPT !.op = "cancelExecution", !.at = now,
                                       !.status = r.status, !.error = r.error,
                                       !.ctx = contextOf(req, executionId),
                                       !.executionId = executionId,
                                       !.before = requestCounts,
                                       !.executionsBefore = executions]
  /\ UNCHANGED <<now, policies, cfg, calls, inflight, races>>

\* POST /policy
CreatePolicyGL(req, policyData) ==
  /\ Len(calls) < MaxPolicyRequests
  /\ \E m \in {rateLimitMiddleware(globalEngine, req, PolicyPath, now)} :
     \E r \in {IF m.passed THEN createPolicy(m.engine, policyData)
               ELSE [status |-> 429, engine |-> m.engine]} :
       /\ globalEngine' = r.engine
       /\ calls' = Append(calls, [op |-> "createPolicy"])
       /\ last' = [NoLast EXCEPT !.op = "createPolicy", !.at = now, !.status = r.status]
  /\ UNCHANGED <<now, requestCounts, policies, cfg, executions, inflight, races>>

\* DELETE /policy/:policyId
DeletePolicyGL(req, policyId) ==
  /\ Len(calls) < MaxPolicyRequests
  /\ \E m \in {rateLimitMiddleware(globalEngine, req, PolicyPath, now)} :
     \E r \in {IF m.passed THEN deletePolicy(m.engine, policyId)
               ELSE [status |-> 429, engine |-> m.engine]} :
       /\ globalEngine' = r.engine
       /\ calls' = Append(calls, [op |-> "deletePolicy"])
       /\ last' = [NoLast EXCEPT !.op = "deletePolicy", !.at = now, !.status = r.status]
  /\ UNCHANGED <<now, requestCounts, policies, cfg, executions, inflight, races>>

NextGL ==
  \/ RunCommandGL(RunRequestGL, <<"e", "1">>)
  \/ Settle(<<"e", "1">>, "resolved")
  \/ GetExecutionGL(LookupRequest, <<"e", "1">>)
  \/ CancelExecutionGL(LookupRequest, <<"e", "1">>)
  \/ \E policyData \in PoliciesGL : CreatePolicyGL(LookupRequest, policyData)
  \/ \E policyId \in {"default-policy", "lockdown"} : DeletePolicyGL(LookupRequest, policyId)

SpecGL == InitGL /\ [][NextGL]_vars

\* the key of the last request was over the default budget in the
\* controller's own limiter
OverOwnBudget ==
  /\ LiveIn(last.before, Key(last.ctx), last.at)
  /\ last.before[Key(last.ctx)].count >= defaultLimit

\* C30: the ExecutionController authorizes against its own PolicyEngine,
\* which holds exactly the default development policy for its whole lifetime:
\* whatever policies the PolicyController has added to or removed from the
\* global engine and whatever budget the middleware has consumed there, a
\* runCommand, getExecution or cancelExecution that reaches the controller is
\* denied (403) exactly when the controller's own limiter is over budget.
C30_PrivateEngine ==
  /\ policies = addPolicy(<<>>, createDefaultPolicy)
  /\ (last.op \in {"runCommand", "getExecution", "cancelExecution"}
        /\ last.status # 429) =>
       /\ (last.status = 403) = OverOwnBudget
       /\ ~OverOwnBudget =>
            ConsumedOne(last.before, requestCounts, Key(last.ctx), last.at, defaultWindow)

\* a command is started although the global engine, whose default-policy was
\* replaced through POST /policy, would refuse its context
C30_Witness ==
  /\ last.op = "runCommand" /\ last.executionId # <<>>
  /\ globalEngine.policies # addPolicy(<<>>, createDefaultPolicy)
  /\ globalEngine.requestCounts # requestCounts
  /\ ~isActionAllowed(globalEngine.policies, EmptyMap, last.ctx, last.at).result

====
